---- MODULE Spec2Model ----
(***************************************************************************)
(* Finance Calculators API (src/main.py): five POST endpoints, each a      *)
(* request validated by its pydantic model and then computed by its        *)
(* handler.                                                                *)
(*                                                                         *)
(* Numbers.  Request amounts are integers counting cents, rates are        *)
(* integers counting percent, `years` counts half-years (so 1 is half a    *)
(* year and 3 is a year and a half), weights and per-year frequencies are  *)
(* plain integers.  Inside a handler a Python float is a fixed-point       *)
(* integer: an amount is held in units of 1/ONE cent and a dimensionless   *)
(* ratio (a rate, a growth factor) in units of 1/ONE.  Products and        *)
(* quotients truncate to that resolution, which stands for the float's     *)
(* rounding error; round2 rounds an amount to whole cents, half to even    *)
(* as Python's round does (where the decimal value is an exact tie the     *)
(* float's representation error decides the direction in CPython; no       *)
(* property below depends on the direction of a tie).  Responses carry     *)
(* whole cents.                                                            *)
(***************************************************************************)
EXTENDS Integers, Sequences, FiniteSets, TLC

VARIABLES pc, endpoint, payload, total, total_weight, shares, iter, reached, response

vars == <<pc, endpoint, payload, total, total_weight, shares, iter, reached, response>>

\* ------------------------------------------------------------------ bounds

\* Longest roommates list a single request carries.
MaxRoommates == 5

\* Longest roommates list when two requests are in flight together.
PairMaxRoommates == 2

\* ------------------------------------------------------- float arithmetic

\* Fixed-point resolution: units per cent (amounts) and per 1.0 (ratios).
ONE == 10000

\* floor(a * b / d) for a >= 0 or a < 0, 0 <= b, 0 < d, without an
\* intermediate product beyond 32 bits.
MulDiv(a, b, d) == (a \div d) * b + ((a % d) * b) \div d

\* Mutant of round2: truncates to cents instead of rounding.
round2_truncating(x) == x \div ONE

\* round(float(x), 2): an amount in 1/ONE cents to whole cents, half to even.
round2(x) ==
    LET q == x \div ONE
        rem == x % ONE
    IN  IF 2 * rem < ONE THEN q
        ELSE IF 2 * rem > ONE THEN q + 1
        ELSE IF q % 2 = 0 THEN q ELSE q + 1

RECURSIVE SqrtSearch(_, _, _)
\* The largest x in lo..hi with x * x <= v.
SqrtSearch(v, lo, hi) ==
    IF lo >= hi THEN lo
    ELSE LET mid == (lo + hi + 1) \div 2
         IN  IF mid * mid <= v THEN SqrtSearch(v, mid, hi)
             ELSE SqrtSearch(v, lo, mid - 1)

RECURSIVE PowInt(_, _)
\* base ** k for a whole k >= 0, base a ratio (no valid request gives k < 0).
PowInt(base, k) == IF k <= 0 THEN ONE ELSE MulDiv(PowInt(base, k - 1), base, ONE)

\* base ** (e2 / 2): the float power with an exponent counted in halves.
Pow(base, e2) ==
    LET whole == PowInt(base, e2 \div 2)
    IN  IF e2 % 2 = 0 THEN whole
        ELSE MulDiv(whole, SqrtSearch(base * ONE, 0, 40000), ONE)

\* payload amount (cents) as a float
Amount(cents) == cents * ONE

\* annual_rate_percent / 100.0 as a ratio
Rate(percent) == (percent * ONE) \div 100

\* x * t for t = years (half-years / 2)
TimesYears(x, years) == (x * years) \div 2

\* ----------------------------------------------------------------- models

Endpoints == {"simple-interest", "compound-interest", "loan-payment",
              "savings-future-value", "rent-split"}

ValidSimpleInterestInput(p) ==
    /\ p.principal > 0
    /\ p.annual_rate_percent >= 0
    /\ p.years > 0

\* Mutant of ValidCompoundInterestInput: times_per_year declared ge=0.
ValidCompoundInterestInput_ge0(p) ==
    /\ p.principal >= 0
    /\ p.annual_rate_percent >= 0
    /\ p.times_per_year >= 0
    /\ p.years >= 0
    /\ p.contribution_per_period >= 0

ValidCompoundInterestInput(p) ==
    /\ p.principal >= 0
    /\ p.annual_rate_percent >= 0
    /\ p.times_per_year >= 1
    /\ p.years >= 0
    /\ p.contribution_per_period >= 0

\* Mutant of ValidLoanPaymentInput: the bound on years is lost.
ValidLoanPaymentInput_years_unchecked(p) ==
    /\ p.principal > 0
    /\ p.annual_rate_percent >= 0
    /\ p.payments_per_year >= 1

ValidLoanPaymentInput(p) ==
    /\ p.principal > 0
    /\ p.annual_rate_percent >= 0
    /\ p.years > 0
    /\ p.payments_per_year >= 1

ValidSavingsFutureValueInput(p) ==
    /\ p.present_value >= 0
    /\ p.contribution_per_period >= 0
    /\ p.annual_rate_percent >= 0
    /\ p.years >= 0
    /\ p.times_per_year >= 1

\* Mutant of ValidRoommateShare: weight declared ge=0.
ValidRoommateShare_ge0(r) == r.weight >= 0

ValidRoommateShare(r) == r.weight > 0

ValidRentSplitInput(p) ==
    /\ p.total_rent >= 0
    /\ p.total_utilities >= 0
    /\ Len(p.roommates) >= 1
    /\ \A k \in 1..Len(p.roommates) : ValidRoommateShare(p.roommates[k])

\* FastAPI's validation of the body against the route's model.
Valid(ep, p) ==
    CASE ep = "simple-interest" -> ValidSimpleInterestInput(p)
      [] ep = "compound-interest" -> ValidCompoundInterestInput(p)
      [] ep = "loan-payment" -> ValidLoanPaymentInput(p)
      [] ep = "savings-future-value" -> ValidSavingsFutureValueInput(p)
      [] ep = "rent-split" -> ValidRentSplitInput(p)

\* -------------------------------------------------------------- responses

NoPayload == [empty |-> TRUE]
NoResponse == [status |-> 0, body |-> [detail |-> "none"]]

Ok(body) == [status |-> 200, body |-> body]

\* RequestValidationError
SchemaValidation == [status |-> 422, body |-> [detail |-> "validation error"]]

\* HTTPException(status_code=400, detail=...)
InvalidArgument(detail) == [status |-> 400, body |-> [detail |-> detail]]

\* An exception no handler catches: ZeroDivisionError escapes to the server.
Unhandled == [status |-> 500, body |-> [detail |-> "Internal Server Error"]]

\* ------------------------------------------------------ handler formulas

SimpleInterestResult(p) ==
    LET P == Amount(p.principal)
        r == Rate(p.annual_rate_percent)
        interest == TimesYears(MulDiv(P, r, ONE), p.years)
    IN  Ok([principal |-> round2(P),
            interest |-> round2(interest),
            total |-> round2(P + interest)])

\* Mutant of CompoundFvContrib: the zero-rate branch is missing.
CompoundFvContrib_no_zero_rate(c, r, n, years) ==
    IF c > 0 /\ r > 0
    THEN MulDiv(c, ((Pow(ONE + r \div n, n * years) - ONE) * ONE) \div (r \div n), ONE)
    ELSE 0

\* fv_contrib of calc_compound_interest
CompoundFvContrib(c, r, n, years) ==
    IF c > 0 /\ r > 0
    THEN MulDiv(c, ((Pow(ONE + r \div n, n * years) - ONE) * ONE) \div (r \div n), ONE)
    ELSE IF c > 0 /\ r = 0
    THEN TimesYears(c * n, years)
    ELSE 0

CompoundInterestResult(p) ==
    LET P == Amount(p.principal)
        r == Rate(p.annual_rate_percent)
        n == p.times_per_year
        c == Amount(p.contribution_per_period)
    IN  IF n = 0 THEN InvalidArgument("times_per_year must be >= 1")
        ELSE LET fv_principal == MulDiv(P, Pow(ONE + r \div n, n * p.years), ONE)
                 fv_contrib == CompoundFvContrib(c, r, n, p.years)
                 fv == fv_principal + fv_contrib
                 interest_earned == fv - (P + TimesYears(c * n, p.years))
             IN  Ok([future_value |-> round2(fv),
                     interest_earned |-> round2(interest_earned),
                     principal |-> round2(P),
                     total_contributions |-> round2(TimesYears(c * n, p.years))])

LoanPaymentResult(p) ==
    LET P == Amount(p.principal)
        r_annual == Rate(p.annual_rate_percent)
        m == p.payments_per_year
    IN  IF m <= 0 THEN InvalidArgument("payments_per_year must be >= 1")
        ELSE LET r == r_annual \div m
                 N == TimesYears(m, p.years)
                 growth == Pow(ONE + r, 2 * N)
                 raises == IF r = 0 THEN N = 0 ELSE growth - ONE = 0
                 payment == IF r = 0 THEN P \div N
                            ELSE MulDiv(MulDiv(P, MulDiv(r, growth, ONE), ONE),
                                        ONE, growth - ONE)
                 total_paid == payment * N
             IN  IF raises THEN Unhandled
                 ELSE Ok([payment_per_period |-> round2(payment),
                          number_of_payments |-> N,
                          total_paid |-> round2(total_paid),
                          total_interest |-> round2(total_paid - P)])

\* Mutant of SavingsFvContrib: the zero-rate branch forgets the years.
SavingsFvContrib_no_years(c, r, n, years) ==
    IF r = 0 THEN c * n
    ELSE MulDiv(c, ((Pow(ONE + r \div n, n * years) - ONE) * ONE) \div (r \div n), ONE)

\* fv_contrib of calc_savings_fv
SavingsFvContrib(c, r, n, years) ==
    IF r = 0 THEN TimesYears(c * n, years)
    ELSE MulDiv(c, ((Pow(ONE + r \div n, n * years) - ONE) * ONE) \div (r \div n), ONE)

SavingsFutureValueResult(p) ==
    LET PV == Amount(p.present_value)
        c == Amount(p.contribution_per_period)
        r == Rate(p.annual_rate_percent)
        n == p.times_per_year
    IN  IF n = 0 THEN InvalidArgument("times_per_year must be >= 1")
        ELSE LET fv_pv == MulDiv(PV, Pow(ONE + r \div n, n * p.years), ONE)
                 fv_contrib == SavingsFvContrib(c, r, n, p.years)
                 fv_total == fv_pv + fv_contrib
                 total_contributions == TimesYears(c * n, p.years)
             IN  Ok([future_value |-> round2(fv_total),
                     interest_earned |-> round2(fv_total - (PV + total_contributions)),
                     total_contributions |-> round2(total_contributions)])

RECURSIVE SumWeights(_)
\* sum(r.weight for r in payload.roommates)
SumWeights(roommates) ==
    IF roommates = << >> THEN 0
    ELSE Head(roommates).weight + SumWeights(Tail(roommates))

\* One entry of shares: total * (r.weight / total_weight), rounded.
Share(r, tot, tw) ==
    [name |-> r.name, weight |-> r.weight, amount |-> round2(MulDiv(tot, r.weight, tw))]

\* ---------------------------------------------------------------- inputs

RoommateValues == {[name |-> "A", weight |-> 1], [name |-> "B", weight |-> 2],
                   [name |-> "B", weight |-> 0]}

\* Every sequence over S of length 0..n.
SeqsUpTo(S, n) == UNION {[1..k -> S] : k \in 0..n}

SimpleInterestInputs ==
    [principal : {-100, 0, 10000, 12345},
     annual_rate_percent : {-1, 0, 5},
     years : {-1, 0, 1, 4}]

CompoundInterestInputs ==
    [principal : {-100, 0, 10000},
     annual_rate_percent : {-1, 0, 5},
     times_per_year : {0, 1, 12},
     years : {-1, 0, 1, 2},
     contribution_per_period : {-1, 0, 1, 100}]

LoanPaymentInputs ==
    [principal : {-100, 0, 10000},
     annual_rate_percent : {-1, 0, 5},
     years : {-1, 0, 1, 2, 3},
     payments_per_year : {0, 1, 12}]

SavingsFutureValueInputs ==
    [present_value : {-100, 0, 10000},
     contribution_per_period : {-1, 0, 1, 100},
     annual_rate_percent : {-1, 0, 5},
     years : {-1, 0, 1, 2},
     times_per_year : {0, 1, 12}]

RentSplitInputs ==
    [total_rent : {-1, 0, 4, 10000},
     total_utilities : {-1, 0, 8},
     roommates : SeqsUpTo(RoommateValues, MaxRoommates)]

\* The request bodies a single client sends.
Inputs(ep) ==
    CASE ep = "simple-interest" -> SimpleInterestInputs
      [] ep = "compound-interest" -> CompoundInterestInputs
      [] ep = "loan-payment" -> LoanPaymentInputs
      [] ep = "savings-future-value" -> SavingsFutureValueInputs
      [] ep = "rent-split" -> RentSplitInputs

\* The request bodies sent while another request is in flight.
PairInputs(ep) ==
    CASE ep = "simple-interest" ->
            [principal : {10000}, annual_rate_percent : {5}, years : {0, 4}]
      [] ep = "compound-interest" ->
            [principal : {10000}, annual_rate_percent : {0, 5}, times_per_year : {0, 12},
             years : {2}, contribution_per_period : {100}]
      [] ep = "loan-payment" ->
            [principal : {10000}, annual_rate_percent : {0, 5}, years : {1, 2},
             payments_per_year : {1}]
      [] ep = "savings-future-value" ->
            [present_value : {10000}, contribution_per_period : {100},
             annual_rate_percent : {0, 5}, years : {2}, times_per_year : {0, 12}]
      [] ep = "rent-split" ->
            [total_rent : {10000}, total_utilities : {0},
             roommates : SeqsUpTo({[name |-> "A", weight |-> 1],
                                   [name |-> "B", weight |-> 2]}, PairMaxRoommates)]

\* ---------------------------------------------------------------- actions

\* A client posts body p to endpoint ep; q is the request's slot.
Request(q, ep, p) ==
    /\ pc[q] = "idle"
    /\ pc' = [pc EXCEPT ![q] = "validate"]
    /\ endpoint' = [endpoint EXCEPT ![q] = ep]
    /\ payload' = [payload EXCEPT ![q] = p]
    /\ UNCHANGED <<total, total_weight, shares, iter, reached, response>>

\* The body is parsed into the route's model before the handler is called.
Validate(q) ==
    /\ pc[q] = "validate"
    /\ IF Valid(endpoint[q], payload[q])
       THEN /\ pc' = [pc EXCEPT ![q] = "handler"]
            /\ UNCHANGED response
       ELSE /\ pc' = [pc EXCEPT ![q] = "done"]
            /\ response' = [response EXCEPT ![q] = SchemaValidation]
    /\ UNCHANGED <<endpoint, payload, total, total_weight, shares, iter, reached>>

\* A handler that runs in one step: its guard, then (unless the guard raised
\* the 400) its formula.
Handle(q, result) ==
    /\ response' = [response EXCEPT ![q] = result]
    /\ reached' = [reached EXCEPT ![q] =
                      IF result.status = 400 THEN {"guard"} ELSE {"guard", "formula"}]
    /\ pc' = [pc EXCEPT ![q] = "done"]
    /\ UNCHANGED <<endpoint, payload, total, total_weight, shares, iter>>

calc_simple_interest(q) ==
    /\ pc[q] = "handler" /\ endpoint[q] = "simple-interest"
    /\ response' = [response EXCEPT ![q] = SimpleInterestResult(payload[q])]
    /\ reached' = [reached EXCEPT ![q] = {"formula"}]
    /\ pc' = [pc EXCEPT ![q] = "done"]
    /\ UNCHANGED <<endpoint, payload, total, total_weight, shares, iter>>

calc_compound_interest(q) ==
    /\ pc[q] = "handler" /\ endpoint[q] = "compound-interest"
    /\ Handle(q, CompoundInterestResult(payload[q]))

calc_loan_payment(q) ==
    /\ pc[q] = "handler" /\ endpoint[q] = "loan-payment"
    /\ Handle(q, LoanPaymentResult(payload[q]))

calc_savings_fv(q) ==
    /\ pc[q] = "handler" /\ endpoint[q] = "savings-future-value"
    /\ Handle(q, SavingsFutureValueResult(payload[q]))

\* calc_rent_split up to the loop: the totals, the weight guard, shares = [].
calc_rent_split_guard(q) ==
    /\ pc[q] = "handler" /\ endpoint[q] = "rent-split"
    /\ LET tot == Amount(payload[q].total_rent) + Amount(payload[q].total_utilities)
           tw == SumWeights(payload[q].roommates)
       IN  /\ total' = [total EXCEPT ![q] = tot]
           /\ total_weight' = [total_weight EXCEPT ![q] = tw]
           /\ reached' = [reached EXCEPT ![q] = {"guard"}]
           /\ IF tw <= 0
              THEN /\ response' = [response EXCEPT ![q] =
                                      InvalidArgument("Sum of weights must be > 0")]
                   /\ pc' = [pc EXCEPT ![q] = "done"]
                   /\ UNCHANGED <<shares, iter>>
              ELSE /\ shares' = [shares EXCEPT ![q] = << >>]
                   /\ iter' = [iter EXCEPT ![q] = 1]
                   /\ pc' = [pc EXCEPT ![q] = "loop"]
                   /\ UNCHANGED response
    /\ UNCHANGED <<endpoint, payload>>

\* Mutant of calc_rent_split_loop: each share goes to the front of the list.
calc_rent_split_loop_prepend(q) ==
    /\ pc[q] = "loop"
    /\ iter[q] <= Len(payload[q].roommates)
    /\ shares' = [shares EXCEPT ![q] =
                     <<Share(payload[q].roommates[iter[q]], total[q], total_weight[q])>> \o @]
    /\ iter' = [iter EXCEPT ![q] = @ + 1]
    /\ reached' = [reached EXCEPT ![q] = @ \cup {"formula"}]
    /\ UNCHANGED <<pc, endpoint, payload, total, total_weight, response>>

\* Mutant of calc_rent_split_loop: shares is one list of the module, which
\* every request in flight appends to.
calc_rent_split_loop_shared(q) ==
    /\ pc[q] = "loop"
    /\ iter[q] <= Len(payload[q].roommates)
    /\ shares' = [s \in DOMAIN shares |->
                     Append(shares[s],
                            Share(payload[q].roommates[iter[q]], total[q], total_weight[q]))]
    /\ iter' = [iter EXCEPT ![q] = @ + 1]
    /\ reached' = [reached EXCEPT ![q] = @ \cup {"formula"}]
    /\ UNCHANGED <<pc, endpoint, payload, total, total_weight, response>>

\* One pass of `for r in payload.roommates`.
calc_rent_split_loop(q) ==
    /\ pc[q] = "loop"
    /\ iter[q] <= Len(payload[q].roommates)
    /\ shares' = [shares EXCEPT ![q] =
                     Append(@, Share(payload[q].roommates[iter[q]], total[q], total_weight[q]))]
    /\ iter' = [iter EXCEPT ![q] = @ + 1]
    /\ reached' = [reached EXCEPT ![q] = @ \cup {"formula"}]
    /\ UNCHANGED <<pc, endpoint, payload, total, total_weight, response>>

\* The loop is exhausted: return {"total": ..., "roommates": shares}.
calc_rent_split_return(q) ==
    /\ pc[q] = "loop"
    /\ iter[q] > Len(payload[q].roommates)
    /\ response' = [response EXCEPT ![q] =
                       Ok([total |-> round2(total[q]), roommates |-> shares[q]])]
    /\ pc' = [pc EXCEPT ![q] = "done"]
    /\ UNCHANGED <<endpoint, payload, total, total_weight, shares, iter, reached>>

\* Everything the service does for request q once it has been received.
Serve(q) ==
    \/ Validate(q)
    \/ calc_simple_interest(q)
    \/ calc_compound_interest(q)
    \/ calc_loan_payment(q)
    \/ calc_savings_fv(q)
    \/ calc_rent_split_guard(q)
    \/ calc_rent_split_loop(q)
    \/ calc_rent_split_return(q)

\* ---------------------------------------------------------- specifications

InitSlots(S) ==
    /\ pc = [q \in S |-> "idle"]
    /\ endpoint = [q \in S |-> "none"]
    /\ payload = [q \in S |-> NoPayload]
    /\ total = [q \in S |-> 0]
    /\ total_weight = [q \in S |-> 0]
    /\ shares = [q \in S |-> << >>]
    /\ iter = [q \in S |-> 0]
    /\ reached = [q \in S |-> {}]
    /\ response = [q \in S |-> NoResponse]

\* One request, drawn from the full input sets.
Init == InitSlots({1})

Next ==
    \/ \E ep \in Endpoints : \E p \in Inputs(ep) : Request(1, ep, p)
    \/ Serve(1)

Spec == Init /\ [][Next]_vars

\* Two requests in flight, their steps interleaved in every order.
InitPair == InitSlots({1, 2})

NextPair ==
    \E q \in {1, 2} :
        \/ \E ep \in Endpoints : \E p \in PairInputs(ep) : Request(q, ep, p)
        \/ Serve(q)

SpecPair == InitPair /\ [][NextPair]_vars

\* ----------------------------------------------------------------- claims

Slots == DOMAIN pc

Done(q) == pc[q] = "done"

RECURSIVE SumAmounts(_)
SumAmounts(rs) == IF rs = << >> THEN 0 ELSE Head(rs).amount + SumAmounts(Tail(rs))

Abs(x) == IF x < 0 THEN -x ELSE x

\* A field of the request is outside the bound its model declares.
ViolatesBound(ep, p) ==
    CASE ep = "simple-interest" ->
            p.principal <= 0 \/ p.annual_rate_percent < 0 \/ p.years <= 0
      [] ep = "compound-interest" ->
            \/ p.principal < 0 \/ p.annual_rate_percent < 0 \/ p.times_per_year < 1
            \/ p.years < 0 \/ p.contribution_per_period < 0
      [] ep = "loan-payment" ->
            \/ p.principal <= 0 \/ p.annual_rate_percent < 0 \/ p.years <= 0
            \/ p.payments_per_year < 1
      [] ep = "savings-future-value" ->
            \/ p.present_value < 0 \/ p.contribution_per_period < 0
            \/ p.annual_rate_percent < 0 \/ p.years < 0 \/ p.times_per_year < 1
      [] ep = "rent-split" ->
            \/ p.total_rent < 0 \/ p.total_utilities < 0 \/ p.roommates = << >>
            \/ \E k \in 1..Len(p.roommates) : p.roommates[k].weight <= 0

\* C1: every request to a calculator endpoint ends in a complete result, a
\* schema-validation rejection or a 400 InvalidArgument rejection; none ends
\* in an unhandled failure of the calculator logic, loan-payment requests
\* with floor(payments_per_year * years) = 0 included.
C1_EveryRequestEndsHandled ==
    \A q \in Slots : Done(q) => response[q].status \in {200, 422, 400}

\* C2: a request with a field outside its declared bound is rejected with a
\* schema-validation error before any handler step: it never enters the
\* handler, reaches no guard and evaluates no formula.
C2_InvalidFieldRejectedBeforeHandler ==
    \A q \in Slots :
        (pc[q] # "idle" /\ ViolatesBound(endpoint[q], payload[q])) =>
            /\ pc[q] \in {"validate", "done"}
            /\ reached[q] = {}
            /\ Done(q) => response[q] = SchemaValidation

\* C2 witness: an empty roommates list has been rejected by the schema.
C2_Witness ==
    \E q \in Slots :
        /\ Done(q) /\ endpoint[q] = "rent-split"
        /\ payload[q].roommates = << >>
        /\ payload[q].total_rent >= 0 /\ payload[q].total_utilities >= 0
        /\ response[q].status = 422

ZeroTimesPerYear(q) ==
    /\ endpoint[q] \in {"compound-interest", "savings-future-value"}
    /\ payload[q].times_per_year = 0

\* times_per_year = 0 is the request's only field out of bounds.
OnlyTimesPerYearOutOfBounds(q) ==
    /\ ZeroTimesPerYear(q)
    /\ payload[q].annual_rate_percent >= 0
    /\ payload[q].years >= 0
    /\ payload[q].contribution_per_period >= 0
    /\ IF endpoint[q] = "compound-interest"
       THEN payload[q].principal >= 0
       ELSE payload[q].present_value >= 0

\* C3 as stated: a compound-interest or savings-future-value request with
\* times_per_year = 0 yields the 400 InvalidArgument response
\* 'times_per_year must be >= 1'.
C3_ZeroTimesPerYearIsInvalidArgument ==
    \A q \in Slots :
        (Done(q) /\ OnlyTimesPerYearOutOfBounds(q)) =>
            response[q] = InvalidArgument("times_per_year must be >= 1")

\* C3 amended: such a request is rejected by schema validation (422); it
\* never reaches the handler, so it yields neither the 400 response nor a
\* computed result.
C3_ZeroTimesPerYearIsSchemaValidation ==
    \A q \in Slots :
        (pc[q] # "idle" /\ ZeroTimesPerYear(q)) =>
            /\ pc[q] \in {"validate", "done"}
            /\ reached[q] = {}
            /\ Done(q) => response[q].status = 422

\* C3 witness: a savings-future-value request whose only field out of bounds
\* is times_per_year = 0 has been answered.
C3_Witness ==
    \E q \in Slots :
        /\ Done(q) /\ endpoint[q] = "savings-future-value"
        /\ OnlyTimesPerYearOutOfBounds(q)
        /\ response[q].status = 422

RentSplitAnswered(q) ==
    Done(q) /\ endpoint[q] = "rent-split" /\ response[q].status = 200

ThreeWayEqualSplitOf100(q) ==
    /\ payload[q].total_rent + payload[q].total_utilities = 10000
    /\ Len(payload[q].roommates) = 3
    /\ \A k \in 1..3 : payload[q].roommates[k].weight = payload[q].roommates[1].weight

\* C4 as stated: the returned amounts sum to within 0.01 of the returned
\* total, and a three-way equal-weight split of 100 sums to 100.00.
C4_SharesSumWithinOneCent ==
    \A q \in Slots :
        RentSplitAnswered(q) =>
            /\ Abs(SumAmounts(response[q].body.roommates) - response[q].body.total) <= 1
            /\ ThreeWayEqualSplitOf100(q) =>
                   SumAmounts(response[q].body.roommates) = 10000

\* C4 amended: the returned amounts sum to within half a cent per roommate
\* of the returned total, and a three-way equal-weight split of 100 returns
\* 33.33 three times, which sums to 99.99.
C4_SharesSumWithinHalfCentEach ==
    \A q \in Slots :
        RentSplitAnswered(q) =>
            /\ 2 * Abs(SumAmounts(response[q].body.roommates) - response[q].body.total)
                   <= Len(payload[q].roommates)
            /\ ThreeWayEqualSplitOf100(q) =>
                   /\ \A k \in 1..3 : response[q].body.roommates[k].amount = 3333
                   /\ SumAmounts(response[q].body.roommates) = 9999

\* C4 witness: a three-way equal-weight split of 100 has been answered.
C4_Witness ==
    \E q \in Slots : RentSplitAnswered(q) /\ ThreeWayEqualSplitOf100(q)

\* Five equal shares of 0.12 are 0.02 each: the amounts sum to 0.10, which is
\* 0.02 less than the total.
C4_TwoCentsApart ==
    \E q \in Slots :
        /\ RentSplitAnswered(q)
        /\ Len(payload[q].roommates) = 5
        /\ \A k \in 1..5 : payload[q].roommates[k].weight = 1
        /\ response[q].body.total = 12
        /\ SumAmounts(response[q].body.roommates) = 10

\* C5: the returned roommates have the input's length and, at every index,
\* the input's name and weight with
\* amount = round2((total_rent + total_utilities) * weight / sum of weights).
C5_SharesFollowInputOrder ==
    \A q \in Slots :
        RentSplitAnswered(q) =>
            LET rin == payload[q].roommates
                rout == response[q].body.roommates
                tot == (payload[q].total_rent + payload[q].total_utilities) * ONE
            IN  /\ Len(rout) = Len(rin)
                /\ \A k \in 1..Len(rin) :
                       /\ rout[k].name = rin[k].name
                       /\ rout[k].weight = rin[k].weight
                       /\ rout[k].amount =
                              round2((tot * rin[k].weight) \div SumWeights(rin))

\* C5 witness: a list that repeats a name, with unequal weights, answered.
C5_Witness ==
    \E q \in Slots :
        /\ RentSplitAnswered(q)
        /\ Len(payload[q].roommates) = 3
        /\ payload[q].roommates[1].name = payload[q].roommates[3].name
        /\ payload[q].roommates[1].name # payload[q].roommates[2].name
        /\ payload[q].roommates[1].weight # payload[q].roommates[2].weight
        /\ payload[q].total_rent = 10000

ZeroRateContributing(q) ==
    /\ Done(q) /\ endpoint[q] = "compound-interest"
    /\ ~ViolatesBound(endpoint[q], payload[q])
    /\ payload[q].annual_rate_percent = 0
    /\ payload[q].contribution_per_period > 0

\* c * n * t in half-cents, for a compound-interest or savings payload.
TwiceContributions(p) == p.contribution_per_period * p.times_per_year * p.years

\* C7 as stated: with annual_rate_percent = 0 and contribution_per_period > 0
\* the response has future_value = principal + c * n * t,
\* total_contributions = c * n * t and interest_earned = 0.
C7_ZeroRateContributionsExact ==
    \A q \in Slots :
        ZeroRateContributing(q) =>
            /\ response[q].status = 200
            /\ 2 * response[q].body.future_value =
                   2 * payload[q].principal + TwiceContributions(payload[q])
            /\ 2 * response[q].body.total_contributions = TwiceContributions(payload[q])
            /\ response[q].body.interest_earned = 0

\* C7 amended: the contribution future value is exactly c * n * t and the
\* response carries it rounded to 2 decimals: future_value =
\* round2(principal + c * n * t), total_contributions = round2(c * n * t),
\* interest_earned = 0.
C7_ZeroRateContributionsRounded ==
    \A q \in Slots :
        ZeroRateContributing(q) =>
            /\ response[q].status = 200
            /\ response[q].body.future_value =
                   round2(((2 * payload[q].principal + TwiceContributions(payload[q])) * ONE)
                          \div 2)
            /\ response[q].body.total_contributions =
                   round2((TwiceContributions(payload[q]) * ONE) \div 2)
            /\ response[q].body.interest_earned = 0

\* C7 witness: 1.00 a month for a year at rate 0 on a principal of 100.
C7_Witness ==
    \E q \in Slots :
        /\ ZeroRateContributing(q)
        /\ payload[q].principal = 10000
        /\ payload[q].contribution_per_period = 100
        /\ payload[q].times_per_year = 12
        /\ payload[q].years = 2
        /\ response[q].body.future_value = 11200

ZeroRateLoan(q) ==
    /\ Done(q) /\ endpoint[q] = "loan-payment"
    /\ ~ViolatesBound(endpoint[q], payload[q])
    /\ payload[q].annual_rate_percent = 0

\* floor(payments_per_year * years), years counted in half-years
FloorPayments(p) == (p.payments_per_year * p.years) \div 2

\* C8: a valid loan-payment request with annual_rate_percent = 0 returns
\* number_of_payments N = floor(payments_per_year * years),
\* payment_per_period = round2(principal / N), total_paid = principal and
\* total_interest = 0.
C8_ZeroRateLoan ==
    \A q \in Slots :
        ZeroRateLoan(q) =>
            /\ response[q].status = 200
            /\ response[q].body.number_of_payments = FloorPayments(payload[q])
            /\ response[q].body.payment_per_period =
                   round2((payload[q].principal * ONE) \div FloorPayments(payload[q]))
            /\ response[q].body.total_paid = payload[q].principal
            /\ response[q].body.total_interest = 0

\* C8 holds of every zero-rate loan that has at least one payment.
C8_ZeroRateLoanWithPayments ==
    \A q \in Slots :
        (ZeroRateLoan(q) /\ FloorPayments(payload[q]) > 0) =>
            /\ response[q].status = 200
            /\ response[q].body.number_of_payments = FloorPayments(payload[q])
            /\ response[q].body.payment_per_period =
                   round2((payload[q].principal * ONE) \div FloorPayments(payload[q]))
            /\ response[q].body.total_paid = payload[q].principal
            /\ response[q].body.total_interest = 0

\* C9: the 'Sum of weights must be > 0' outcome is unreachable: a rent-split
\* request that enters the handler has total weight > 0 and goes on to
\* compute shares.
C9_WeightGuardNeverFires ==
    \A q \in Slots :
        endpoint[q] = "rent-split" =>
            /\ response[q].status # 400
            /\ "guard" \in reached[q] => (total_weight[q] > 0 /\ pc[q] \in {"loop", "done"})
            /\ (Done(q) /\ "guard" \in reached[q]) => response[q].status = 200

\* C9 witness: a rent-split request is past the weight guard, in the loop.
C9_Witness ==
    \E q \in Slots :
        /\ endpoint[q] = "rent-split" /\ pc[q] = "loop"
        /\ "guard" \in reached[q]
        /\ total_weight[q] = SumWeights(payload[q].roommates)

AsSavings(p) ==
    [present_value |-> p.principal,
     contribution_per_period |-> p.contribution_per_period,
     annual_rate_percent |-> p.annual_rate_percent,
     years |-> p.years,
     times_per_year |-> p.times_per_year]

AsCompound(p) ==
    [principal |-> p.present_value,
     annual_rate_percent |-> p.annual_rate_percent,
     times_per_year |-> p.times_per_year,
     years |-> p.years,
     contribution_per_period |-> p.contribution_per_period]

SameFigures(a, b) ==
    /\ a.status = 200 /\ b.status = 200
    /\ a.body.future_value = b.body.future_value
    /\ a.body.interest_earned = b.body.interest_earned
    /\ a.body.total_contributions = b.body.total_contributions

\* C10: on every valid tuple (amount, c, R, n, t) compound-interest with
\* principal = amount and savings-future-value with present_value = amount
\* return equal future_value, interest_earned and total_contributions.
C10_CompoundEqualsSavings ==
    \A q \in Slots :
        /\ (Done(q) /\ endpoint[q] = "compound-interest"
               /\ ~ViolatesBound(endpoint[q], payload[q])) =>
              SameFigures(response[q], SavingsFutureValueResult(AsSavings(payload[q])))
        /\ (Done(q) /\ endpoint[q] = "savings-future-value"
               /\ ~ViolatesBound(endpoint[q], payload[q])) =>
              SameFigures(response[q], CompoundInterestResult(AsCompound(payload[q])))

\* C10 witness: no contribution at a positive rate, where compound-interest
\* skips the annuity formula and savings-future-value evaluates it.
C10_Witness ==
    \E q \in Slots :
        /\ Done(q) /\ endpoint[q] = "compound-interest"
        /\ response[q].status = 200
        /\ payload[q].contribution_per_period = 0
        /\ payload[q].annual_rate_percent = 5
        /\ payload[q].principal = 10000
        /\ payload[q].times_per_year = 12
        /\ payload[q].years = 2

====
